---- MODULE Spec2Model ----
(***************************************************************************)
(* A model of the duckq priority queue: a table of item rows in an         *)
(* embedded transactional store (DuckDB), and the dequeue / acknowledge    *)
(* protocol that callers run against it from concurrent goroutines.        *)
(*                                                                         *)
(* Every caller is a process that runs one operation at a time.  Enqueue   *)
(* and dequeueInternal are split at the points where another goroutine can *)
(* interleave: the timestamp read and Begin, the SELECT, the UPDATE or     *)
(* DELETE, and the Commit.  A transaction's write is invisible to others   *)
(* until its commit; a write to a row that another transaction wrote after *)
(* this one read it fails with the store's transaction conflict error.     *)
(* The column updated_at is written but never read by any operation and is *)
(* left out.                                                               *)
(***************************************************************************)
EXTENDS Integers, FiniteSets, TLC

\* ---- bounds of the model ----
NProcs == 2
MaxEnq == 2
MaxClock == 1
MaxAck == 2
MaxItems == 3

Procs == 1..NProcs
Priorities == {-1, 1, 5}
Payloads == {"x", "y"}

\* ack_id column: NULL until a dequeue with ack id stores a cuid
NullAck == -1
\* the zero value of `var ackID string`, returned on every not-found path
EmptyAck == 0
\* the nil payload returned on every not-found path
NoData == "nil"

VARIABLES
    rows,              \* the committed table: row id -> row
    nextId,            \* the sequence <table>_id_seq: the next value of nextval
    nextAck,           \* the number of cuids minted so far
    clock,             \* time.Now().UTC(), as the store's TIMESTAMP holds it
    closed,            \* Queue.closed
    dbClosed,          \* the registry's sql.DB handle was closed
    removeOnComplete,  \* Queue.removeOnComplete
    txn,               \* per caller: the open transaction and its position
    todo,              \* per caller: the calls it still makes (-1: any number)
    last,              \* the result of the call that returned in the last step, if one did
    hist               \* history of the run (ghost): the ack ids issued, acknowledged and
                       \* taken back, the row ids dequeued without ack id, the row ids put

vars == <<rows, nextId, nextAck, clock, closed, dbClosed, removeOnComplete, txn, todo, last, hist>>

\* the ack ids a caller passes to Acknowledge: every id minted so far and one
\* that is never minted
AckInputs == (1..nextAck) \cup {MaxAck + 1}

\* ---- rows ----
Row(item, now, priority) ==
    [data |-> item, status |-> "pending", ack_id |-> NullAck, ack |-> FALSE,
     created_at |-> now, priority |-> priority]

Pending(r) == {i \in DOMAIN r : r[i].status = "pending"}
Processing(r) == {i \in DOMAIN r : r[i].status = "processing"}
Done(r) == {i \in DOMAIN r : r[i].status = "done"}

Without(r, ids) == [i \in DOMAIN r \ ids |-> r[i]]
With(r, id, row) == [i \in DOMAIN r \cup {id} |-> IF i = id THEN row ELSE r[i]]

\* ---- callers ----
IdleTxn ==
    [pc |-> "idle", withAckId |-> FALSE, id |-> 0, data |-> NoData,
     ackID |-> EmptyAck, now |-> 0, priority |-> 0, stale |-> FALSE]

NoRet ==
    [op |-> "none", ok |-> FALSE, id |-> 0, data |-> NoData, ackID |-> EmptyAck]

\* a call that returns false / not-found
Refused(op) ==
    [op |-> op, ok |-> FALSE, id |-> 0, data |-> NoData, ackID |-> EmptyAck]

NoHist ==
    [issued |-> {}, acked |-> {}, revoked |-> {}, gone |-> {}, put |-> {}]

\* caller p starts a call
Calls(p) ==
    /\ txn[p].pc = "idle"
    /\ todo[p] # 0
    /\ todo' = IF todo[p] > 0 THEN [todo EXCEPT ![p] = @ - 1] ELSE todo

InFlight(pcs) == {p \in Procs : txn[p].pc \in pcs}

\* mutant: the closed flag is never looked at
IsClosedNever(c) == FALSE

\* pq.closed.Load()
IsClosed(c) == c

\* the options of a construction: none, or the one that switches retention on
Options == {"none", "retain"}

\* mutant: a queue keeps completed rows unless told otherwise
ApplyOptionsRetainByDefault(o) == FALSE

\* Queue.removeOnComplete after construction: true unless an option changes it
ApplyOptions(o) == IF o = "retain" THEN FALSE ELSE TRUE

Init ==
    /\ rows = <<>>
    /\ nextId = 1
    /\ nextAck = 0
    /\ clock = 0
    /\ closed = FALSE
    /\ dbClosed = FALSE
    /\ removeOnComplete \in {ApplyOptions(o) : o \in Options}
    /\ txn = [p \in Procs |-> IdleTxn]
    /\ todo = [p \in Procs |-> -1]
    /\ last = NoRet
    /\ hist = NoHist

\* time passes
Tick ==
    /\ clock < MaxClock
    /\ clock' = clock + 1
    /\ UNCHANGED <<rows, nextId, nextAck, closed, dbClosed, removeOnComplete, txn, hist, todo>>
    /\ last' = NoRet

\* mutant: Begin succeeds on a store handle that was closed
BeginIgnoresClosedHandle(fail, db) == fail

\* pq.client.Begin() returns an error: the store fails, or the handle was closed
BeginFails(fail, db) == fail \/ db

\* ---- PriorityQueue.Enqueue ----
\* closed check, time.Now(), Begin
EnqStart(p, item, priority, fail) ==
    /\ Calls(p)
    /\ IF IsClosed(closed)
         THEN /\ last' = Refused("Enqueue")
              /\ UNCHANGED txn
         ELSE IF BeginFails(fail, dbClosed)
         THEN /\ last' = Refused("Enqueue")
              /\ UNCHANGED txn
         ELSE /\ txn' = [txn EXCEPT ![p] = [IdleTxn EXCEPT !.pc = "enq", !.data = item,
                                              !.priority = priority, !.now = clock]]
              /\ last' = NoRet
    /\ UNCHANGED <<rows, nextId, nextAck, clock, closed, dbClosed, removeOnComplete, hist>>

\* mutant: a failed transaction leaves its write in the table
RolledBackKeepsWrite(before, written) == written

\* the table after a transaction that failed and was rolled back
RolledBack(before, written) == before

\* mutant: the sequence hands out the same value again
NextvalStuck(n) == n

\* the sequence after nextval handed out n
Nextval(n) == n + 1

\* INSERT (the id is nextval of the sequence) and Commit
EnqCommit(p, fail) ==
    /\ txn[p].pc = "enq"
    /\ txn' = [txn EXCEPT ![p] = IdleTxn]
    /\ nextId' = Nextval(nextId)
    /\ LET written == With(rows, nextId, Row(txn[p].data, txn[p].now, txn[p].priority)) IN
       IF fail
         THEN /\ rows' = RolledBack(rows, written)
              /\ last' = Refused("Enqueue")
              /\ UNCHANGED hist
         ELSE /\ rows' = written
              /\ last' = [NoRet EXCEPT !.op = "Enqueue", !.ok = TRUE,
                                       !.id = nextId, !.data = txn[p].data]
              /\ hist' = [hist EXCEPT !.put = @ \cup {nextId}]
    /\ UNCHANGED <<nextAck, clock, closed, dbClosed, removeOnComplete, todo>>

\* ---- PriorityQueue.dequeueInternal ----
\* a with b: row a is served before row b under ORDER BY priority ASC, created_at ASC
Before(a, b) ==
    \/ a.priority < b.priority
    \/ a.priority = b.priority /\ a.created_at < b.created_at

\* mutant: the SELECT has no WHERE status = 'pending'
SelectCandidatesAnyStatus(r) ==
    {i \in DOMAIN r : \A j \in DOMAIN r : ~Before(r[j], r[i])}

\* SELECT id, data ... WHERE status = 'pending' ORDER BY priority ASC, created_at ASC
\* LIMIT 1: the rows the statement may return (rows that tie on both keys are in
\* no defined order)
SelectCandidates(r) ==
    {i \in Pending(r) : \A j \in Pending(r) : ~Before(r[j], r[i])}

\* mutant: every call mints the same id
NewCuidFixed(n) == 1

\* cuid.New(): the n-th id minted is unlike every one minted before
NewCuid(n) == n + 1

\* the callers whose transaction read row id and did not write yet see it changed
MarkStale(t, ids, p) ==
    [q \in Procs |-> IF q # p /\ t[q].pc = "sel" /\ t[q].id \in ids
                       THEN [t[q] EXCEPT !.stale = TRUE] ELSE t[q]]

\* mutant: a store that lets the later writer overwrite the earlier one
WriteConflictNever(t, p) == FALSE

\* tx.Exec of the UPDATE / DELETE fails with a transaction conflict: the row was
\* written by a transaction that committed after this one read it, or is written
\* by one that is still open
WriteConflict(t, p) ==
    \/ t[p].stale
    \/ \E q \in Procs \ {p} : t[q].pc = "upd" /\ t[q].id = t[p].id

\* ack_id TEXT UNIQUE: the UPDATE would store an ack id another row holds
UniqueViolation(r, id, withAckId, ackID) ==
    withAckId /\ \E i \in DOMAIN r \ {id} : r[i].ack_id = ackID

\* mutant: the UPDATE stores the ack id and leaves the status pending
DequeueWriteKeepsStatus(r, id, withAckId, ackID) ==
    IF withAckId
      THEN [r EXCEPT ![id] = [@ EXCEPT !.ack_id = ackID]]
      ELSE Without(r, {id})

\* mutant: without ack id the row is marked processing, not deleted
DequeueWriteNoDelete(r, id, withAckId, ackID) ==
    [r EXCEPT ![id] = [@ EXCEPT !.status = "processing",
                                 !.ack_id = IF withAckId THEN ackID ELSE @]]

\* the table after the UPDATE (with ack id) or the DELETE (without)
DequeueWrite(r, id, withAckId, ackID) ==
    IF withAckId
      THEN [r EXCEPT ![id] = [@ EXCEPT !.status = "processing", !.ack_id = ackID]]
      ELSE Without(r, {id})

DeqName(withAckId) == IF withAckId THEN "DequeueWithAckId" ELSE "Dequeue"

\* closed check, Begin, SELECT and Scan
DeqStart(p, withAckId, fail) ==
    /\ Calls(p)
    /\ IF IsClosed(closed)
         THEN /\ last' = Refused(DeqName(withAckId))
              /\ UNCHANGED txn
         ELSE IF BeginFails(fail, dbClosed)
         THEN /\ last' = Refused(DeqName(withAckId))
              /\ UNCHANGED txn
         ELSE IF SelectCandidates(rows) = {}
         THEN /\ last' = Refused(DeqName(withAckId))
              /\ UNCHANGED txn
         ELSE /\ last' = NoRet
              /\ \E id \in SelectCandidates(rows) :
                   txn' = [txn EXCEPT ![p] = [IdleTxn EXCEPT !.pc = "sel", !.id = id,
                                                !.data = rows[id].data,
                                                !.withAckId = withAckId]]
    /\ UNCHANGED <<rows, nextId, nextAck, clock, closed, dbClosed, removeOnComplete, hist>>

\* cuid.New() and tx.Exec of the UPDATE or DELETE
DeqWrite(p, fail) ==
    /\ txn[p].pc = "sel"
    /\ LET ackID == IF txn[p].withAckId THEN NewCuid(nextAck) ELSE EmptyAck IN
       /\ nextAck' = IF txn[p].withAckId THEN nextAck + 1 ELSE nextAck
       /\ IF \/ fail
             \/ WriteConflict(txn, p)
             \/ UniqueViolation(rows, txn[p].id, txn[p].withAckId, ackID)
            THEN /\ txn' = [txn EXCEPT ![p] = IdleTxn]
                 /\ last' = Refused(DeqName(txn[p].withAckId))
            ELSE /\ txn' = [txn EXCEPT ![p].pc = "upd", ![p].ackID = ackID]
                 /\ last' = NoRet
    /\ UNCHANGED <<rows, nextId, clock, closed, dbClosed, removeOnComplete, hist, todo>>

\* tx.Commit and return
DeqCommit(p, fail) ==
    /\ txn[p].pc = "upd"
    /\ LET t == txn[p]
           written == DequeueWrite(rows, t.id, t.withAckId, t.ackID) IN
       IF fail
         THEN /\ rows' = RolledBack(rows, written)
              /\ txn' = [txn EXCEPT ![p] = IdleTxn]
              /\ last' = Refused(DeqName(t.withAckId))
              /\ UNCHANGED hist
         ELSE /\ rows' = written
              /\ txn' = [MarkStale(txn, {t.id}, p) EXCEPT ![p] = IdleTxn]
              /\ last' = [NoRet EXCEPT !.op = DeqName(t.withAckId), !.ok = TRUE,
                                       !.id = t.id, !.data = t.data,
                                       !.ackID = t.ackID]
              /\ hist' = IF t.withAckId
                           THEN [hist EXCEPT !.issued = @ \cup {t.ackID}]
                           ELSE [hist EXCEPT !.gone = @ \cup {t.id}]
    /\ UNCHANGED <<nextId, nextAck, clock, closed, dbClosed, removeOnComplete, todo>>

\* ---- the operations PriorityQueue takes over from the embedded Queue ----
AckIdsOf(r, ids) == {r[i].ack_id : i \in ids}

\* Acknowledge(ackId): finalize the processing row that holds ackId
Acknowledge(p, a, fail) ==
    /\ Calls(p)
    /\ LET match == {i \in Processing(rows) : rows[i].ack_id = a} IN
       IF fail \/ dbClosed
         THEN /\ last' = [Refused("Acknowledge") EXCEPT !.ackID = a]
              /\ UNCHANGED <<rows, txn, hist>>
         ELSE IF match = {}
         THEN /\ last' = [Refused("Acknowledge") EXCEPT !.ackID = a]
              /\ UNCHANGED <<rows, txn, hist>>
         ELSE /\ rows' = IF removeOnComplete
                           THEN Without(rows, match)
                           ELSE [i \in DOMAIN rows |->
                                   IF i \in match
                                     THEN [rows[i] EXCEPT !.status = "done", !.ack = TRUE]
                                     ELSE rows[i]]
              /\ txn' = MarkStale(txn, match, p)
              /\ last' = [NoRet EXCEPT !.op = "Acknowledge", !.ok = TRUE, !.ackID = a]
              /\ hist' = [hist EXCEPT !.acked = @ \cup {a}]
    /\ UNCHANGED <<nextId, nextAck, clock, closed, dbClosed, removeOnComplete>>

\* the table after the recovery sweep
Requeued(r) ==
    [i \in DOMAIN r |-> IF r[i].status = "processing"
                          THEN [r[i] EXCEPT !.status = "pending", !.ack_id = NullAck]
                          ELSE r[i]]

\* RequeueNoAckRows(): the recovery sweep, on demand
RequeueNoAckRows(p, fail) ==
    /\ Calls(p)
    /\ IF fail \/ dbClosed
         THEN /\ last' = Refused("RequeueNoAckRows")
              /\ UNCHANGED <<rows, txn, hist>>
         ELSE /\ rows' = Requeued(rows)
              /\ txn' = MarkStale(txn, Processing(rows), p)
              /\ last' = [NoRet EXCEPT !.op = "RequeueNoAckRows", !.ok = TRUE]
              /\ hist' = [hist EXCEPT !.revoked = @ \cup AckIdsOf(rows, Processing(rows))]
    /\ UNCHANGED <<nextId, nextAck, clock, closed, dbClosed, removeOnComplete>>

\* mutant: Purge deletes the pending rows only
PurgePendingOnly(p, fail) ==
    /\ Calls(p)
    /\ rows' = Without(rows, Pending(rows))
    /\ txn' = MarkStale(txn, Pending(rows), p)
    /\ last' = [NoRet EXCEPT !.op = "Purge", !.ok = TRUE]
    /\ UNCHANGED <<nextId, nextAck, clock, closed, dbClosed, removeOnComplete, hist>>

\* Purge(): delete every row; the DELETE conflicts with a row an open
\* transaction has written
Purge(p, fail) ==
    /\ Calls(p)
    /\ IF fail \/ dbClosed \/ InFlight({"upd"}) # {}
         THEN /\ last' = Refused("Purge")
              /\ UNCHANGED <<rows, txn, hist>>
         ELSE /\ rows' = <<>>
              /\ txn' = MarkStale(txn, DOMAIN rows, p)
              /\ last' = [NoRet EXCEPT !.op = "Purge", !.ok = TRUE]
              /\ hist' = [hist EXCEPT !.revoked = @ \cup AckIdsOf(rows, Processing(rows))]
    /\ UNCHANGED <<nextId, nextAck, clock, closed, dbClosed, removeOnComplete>>

\* Len(): the number of pending rows
Len(r) == Cardinality(Pending(r))

\* Values(): the payloads of the pending rows (as a set of row id and payload)
Values(r) == {<<i, r[i].data>> : i \in Pending(r)}

\* Close() of the queue
Close(p) ==
    /\ Calls(p)
    /\ closed' = TRUE
    /\ last' = [NoRet EXCEPT !.op = "Close", !.ok = TRUE]
    /\ UNCHANGED <<rows, nextId, nextAck, clock, dbClosed, removeOnComplete, txn, hist>>

\* ---- the registry ----
\* queues.Close(): close the shared store handle
RegistryClose ==
    /\ ~dbClosed
    /\ dbClosed' = TRUE
    /\ UNCHANGED <<rows, nextId, nextAck, clock, closed, removeOnComplete, txn, hist, todo>>
    /\ last' = NoRet

\* mutant: construction does not run the recovery sweep
RestartNoSweep ==
    /\ rows' = rows
    /\ txn' = [p \in Procs |-> IdleTxn]
    /\ last' = NoRet
    /\ closed' = FALSE
    /\ dbClosed' = FALSE
    /\ removeOnComplete' \in BOOLEAN
    /\ hist' = hist
    /\ UNCHANGED <<nextId, nextAck, clock, todo>>

\* a new process lifetime: the open transactions of the old one are gone, New
\* opens the store and NewPriorityQueue builds the queue over the existing table
\* and runs the recovery sweep
NewPriorityQueue(o) ==
    /\ rows' = Requeued(rows)
    /\ txn' = [p \in Procs |-> IdleTxn]
    /\ last' = NoRet
    /\ closed' = FALSE
    /\ dbClosed' = FALSE
    /\ removeOnComplete' = ApplyOptions(o)
    /\ hist' = [hist EXCEPT !.revoked = @ \cup AckIdsOf(rows, Processing(rows))]
    /\ UNCHANGED <<nextId, nextAck, clock, todo>>

\* a new process lifetime, with or without options
Restart == \E o \in Options : NewPriorityQueue(o)

\* the bounds of the run: the enqueues and the dequeues with ack id that have
\* begun fit into MaxEnq row ids and MaxAck ack ids
EnqRoom == nextId + Cardinality(InFlight({"enq"})) <= MaxEnq
AckRoom == nextAck + Cardinality({q \in InFlight({"sel"}) : txn[q].withAckId}) < MaxAck

\* ---- the whole program ----
Next ==
    \/ Tick
    \/ RegistryClose
    \/ Restart
    \/ \E p \in Procs :
         \/ \E item \in Payloads, priority \in Priorities, fail \in BOOLEAN :
              EnqRoom /\ EnqStart(p, item, priority, fail)
         \/ \E fail \in BOOLEAN : EnqCommit(p, fail)
         \/ \E withAckId \in BOOLEAN, fail \in BOOLEAN :
              (withAckId => AckRoom) /\ DeqStart(p, withAckId, fail)
         \/ \E fail \in BOOLEAN : DeqWrite(p, fail)
         \/ \E fail \in BOOLEAN : DeqCommit(p, fail)
         \/ \E a \in AckInputs, fail \in BOOLEAN : Acknowledge(p, a, fail)
         \/ \E fail \in BOOLEAN : RequeueNoAckRows(p, fail)
         \/ \E fail \in BOOLEAN : Purge(p, fail)
         \/ Close(p)

Spec == Init /\ [][Next]_vars

\* ---- the dequeue / acknowledge protocol ----
\* Two callers run Enqueue, Dequeue, DequeueWithAckId, Acknowledge and the sweep
\* concurrently, and every store step of Enqueue and of the dequeues may fail.
\* All items have one payload, one priority and one created_at.
Callers == {1, 2}

NextProtocol ==
    \E p \in Callers :
         \/ \E fail \in BOOLEAN : EnqRoom /\ EnqStart(p, "x", 0, fail)
         \/ \E fail \in BOOLEAN : EnqCommit(p, fail)
         \/ \E withAckId \in BOOLEAN, fail \in BOOLEAN :
              (withAckId => AckRoom) /\ DeqStart(p, withAckId, fail)
         \/ \E fail \in BOOLEAN : DeqWrite(p, fail)
         \/ \E fail \in BOOLEAN : DeqCommit(p, fail)
         \/ \E a \in AckInputs : Acknowledge(p, a, FALSE)
         \/ RequeueNoAckRows(p, FALSE)

SpecProtocol == Init /\ [][NextProtocol]_vars

\* ---- the life of a queue ----
\* Two callers enqueue and dequeue while the queue is closed, the registry is
\* closed, the table is purged, and the process is started again over the table.
NextLife ==
    \/ RegistryClose
    \/ Restart
    \/ \E p \in Callers :
         \/ EnqRoom /\ EnqStart(p, "x", 0, FALSE)
         \/ EnqCommit(p, FALSE)
         \/ \E withAckId \in BOOLEAN :
              (withAckId => AckRoom) /\ DeqStart(p, withAckId, FALSE)
         \/ DeqWrite(p, FALSE)
         \/ DeqCommit(p, FALSE)
         \/ Purge(p, FALSE)
         \/ Close(p)

SpecLife == Init /\ [][NextLife]_vars

\* ---- purging ----
\* Two callers enqueue, dequeue, acknowledge, sweep and purge concurrently; an
\* INSERT or its commit may fail, no other store step does.
NextPurge ==
    \E p \in Callers :
         \/ EnqRoom /\ EnqStart(p, "x", 0, FALSE)
         \/ \E fail \in BOOLEAN : EnqCommit(p, fail)
         \/ \E withAckId \in BOOLEAN :
              (withAckId => AckRoom) /\ DeqStart(p, withAckId, FALSE)
         \/ DeqWrite(p, FALSE)
         \/ DeqCommit(p, FALSE)
         \/ \E a \in AckInputs : Acknowledge(p, a, FALSE)
         \/ RequeueNoAckRows(p, FALSE)
         \/ Purge(p, FALSE)

SpecPurge == Init /\ [][NextPurge]_vars

\* ---- lifetimes ----
\* Two callers enqueue, dequeue with ack id and acknowledge; the process is
\* started again over the table, with or without options; no store step fails.
NextLifetimes ==
    \/ Restart
    \/ \E p \in Callers :
         \/ EnqRoom /\ EnqStart(p, "x", 0, FALSE)
         \/ EnqCommit(p, FALSE)
         \/ AckRoom /\ DeqStart(p, TRUE, FALSE)
         \/ DeqWrite(p, FALSE)
         \/ DeqCommit(p, FALSE)
         \/ \E a \in AckInputs : Acknowledge(p, a, FALSE)

SpecLifetimes == Init /\ [][NextLifetimes]_vars

\* ---- conservation of items ----
\* Two callers enqueue items of two payloads, dequeue, acknowledge and sweep
\* concurrently; the commit of an Enqueue or of a dequeue may fail; a caller
\* acknowledges ack ids of deliveries in flight only, and nobody purges.
NextConserve ==
    \E p \in Callers :
         \/ \E item \in Payloads : EnqRoom /\ EnqStart(p, item, 0, FALSE)
         \/ \E fail \in BOOLEAN : EnqCommit(p, fail)
         \/ \E withAckId \in BOOLEAN :
              (withAckId => AckRoom) /\ DeqStart(p, withAckId, FALSE)
         \/ DeqWrite(p, FALSE)
         \/ \E fail \in BOOLEAN : DeqCommit(p, fail)
         \/ \E a \in AckIdsOf(rows, Processing(rows)) : Acknowledge(p, a, FALSE)
         \/ RequeueNoAckRows(p, FALSE)

SpecConserve == Init /\ [][NextConserve]_vars

\* ---- the order of service ----
\* One caller enqueues up to MaxItems items of any priority while time passes,
\* dequeues them and runs the sweep; no store step fails.
ItemRoom == nextId <= MaxItems

NextOrder ==
    \/ Tick
    \/ \E priority \in Priorities : ItemRoom /\ EnqStart(1, "x", priority, FALSE)
    \/ EnqCommit(1, FALSE)
    \/ \E withAckId \in BOOLEAN : (withAckId => AckRoom) /\ DeqStart(1, withAckId, FALSE)
    \/ DeqWrite(1, FALSE)
    \/ DeqCommit(1, FALSE)
    \/ RequeueNoAckRows(1, FALSE)

InitOrder == Init /\ removeOnComplete

SpecOrder == InitOrder /\ [][NextOrder]_vars

\* ---- the place of a recovered row ----
\* Row 1 was enqueued and handed out under ack id 1 and is still processing; one
\* caller then enqueues, dequeues and runs the sweep as in the order of service.
InitRecovery ==
    /\ \E now \in 0..MaxClock, priority \in Priorities :
         rows = With(<<>>, 1, [Row("x", now, priority) EXCEPT !.status = "processing",
                                                              !.ack_id = NewCuid(0)])
    /\ nextId = 2
    /\ nextAck = 1
    /\ clock \in 0..MaxClock
    /\ \A i \in DOMAIN rows : rows[i].created_at <= clock
    /\ closed = FALSE
    /\ dbClosed = FALSE
    /\ removeOnComplete = TRUE
    /\ txn = [p \in Procs |-> IdleTxn]
    /\ todo = [p \in Procs |-> -1]
    /\ last = NoRet
    /\ hist = [NoHist EXCEPT !.issued = {NewCuid(0)}, !.put = {1}]

SpecRecovery == InitRecovery /\ [][NextOrder]_vars

\* ---- the race of concurrent dequeues ----
\* The table holds M pending rows (1 < M <= MaxEnq) and every caller makes one
\* call of DequeueWithAckId; no store step fails and nothing else runs.
InitRace ==
    /\ \E M \in 2..MaxEnq :
         /\ rows \in [1..M -> {Row("x", now, priority) :
                                  now \in 0..MaxClock, priority \in Priorities}]
         /\ nextId = M + 1
    /\ nextAck = 0
    /\ clock = MaxClock
    /\ closed = FALSE
    /\ dbClosed = FALSE
    /\ removeOnComplete = TRUE
    /\ txn = [p \in Procs |-> IdleTxn]
    /\ todo = [p \in Procs |-> 1]
    /\ last = NoRet
    /\ hist = [NoHist EXCEPT !.put = DOMAIN rows]

NextRace ==
    \E p \in Procs :
         \/ DeqStart(p, TRUE, FALSE)
         \/ DeqWrite(p, FALSE)
         \/ DeqCommit(p, FALSE)

SpecRace == InitRace /\ [][NextRace]_vars
\* ---- the ordering example ----
\* One caller enqueues A at priority 5, B at priority 1, then C at priority 5,
\* and then dequeues until the queue is empty, while time passes.
ExamplePayload == <<"A", "B", "C">>
ExamplePriority == <<5, 1, 5>>

NextExample ==
    \/ Tick
    \/ /\ nextId <= 3
       /\ EnqStart(1, ExamplePayload[nextId], ExamplePriority[nextId], FALSE)
    \/ EnqCommit(1, FALSE)
    \/ \E withAckId \in BOOLEAN : nextId = 4 /\ DeqStart(1, withAckId, FALSE)
    \/ DeqWrite(1, FALSE)
    \/ DeqCommit(1, FALSE)

SpecExample == Init /\ [][NextExample]_vars

\* ---- what the steps of a behaviour are ----
DequeueOps == {"Dequeue", "DequeueWithAckId"}

\* caller p goes from position from to position to
Moves(p, from, to) == txn[p].pc = from /\ txn'[p].pc = to

\* caller p's transaction changes in this step
Steps(p) == txn'[p] # txn[p]

\* a call of op returns false / not-found in this step
Refuses(ops) == last'.op \in ops /\ ~last'.ok

\* a Dequeue or DequeueWithAckId returns found=true in this step
DequeueReturns == last'.ok /\ last'.op \in DequeueOps

\* the priorities of the rows that are pending
PendingPriorities(r) == {r[i].priority : i \in Pending(r)}

\* A successful dequeue returns a row that was pending when it was called and
\* that has the least priority of the rows then pending.
MinPriorityServed ==
    [][DequeueReturns =>
         /\ last'.id \in Pending(rows)
         /\ last'.data = rows[last'.id].data
         /\ \A pr \in PendingPriorities(rows) : rows[last'.id].priority <= pr]_vars

\* C1: every successful Dequeue or DequeueWithAckId returns a row that was pending
\* at the call and has the least priority of the pending rows; after enqueuing A
\* at priority 5, B at priority 1, then C at priority 5, three dequeues yield
\* B, A, C (the k-th dequeue finds 4-k rows pending).
C1_ExampleYieldsBAC ==
    [][DequeueReturns =>
         /\ last'.id \in Pending(rows)
         /\ \A pr \in PendingPriorities(rows) : rows[last'.id].priority <= pr
         /\ last'.data = <<"C", "A", "B">>[Len(rows)]]_vars

\* C4: among pending rows of one priority a dequeue returns the one whose Enqueue
\* completed first (row ids are given in the order the Enqueue calls complete),
\* also when their created_at are equal.
C4_FifoAmongEqualPriority ==
    [][DequeueReturns =>
         \A j \in Pending(rows) :
             rows[j].priority = rows[last'.id].priority => last'.id <= j]_vars

\* ---- concurrent dequeues ----
\* every caller has made its call and the call has returned
AllReturned == \A p \in Procs : todo[p] = 0 /\ txn[p].pc = "idle"

\* C2: when concurrent callers of DequeueWithAckId race for the pending rows, a
\* caller that returns found=true gets a row that no caller got before (it is not
\* yet processing) and an ack id that no caller got before.
C2_NoRowOrAckIdTwice ==
    [][DequeueReturns =>
         /\ last'.id \notin Processing(rows)
         /\ last'.ackID \notin hist.issued
         /\ last'.ackID \notin AckIdsOf(rows, DOMAIN rows)]_vars

\* two callers selected the same row, one of them has just returned it with its
\* ack id, and the other has yet to write
C2_Witness ==
    /\ last.ok /\ last.op = "DequeueWithAckId"
    /\ \E p \in Procs : txn[p].pc = "sel" /\ txn[p].id = last.id /\ txn[p].stale
    /\ Cardinality(Pending(rows)) > 0

\* C3: when all N concurrent calls of DequeueWithAckId on M pending rows have
\* returned, max(0, M - N) rows are pending.
C3_PendingAfterRace ==
    AllReturned =>
        Len(rows) = IF Cardinality(DOMAIN rows) > NProcs
                      THEN Cardinality(DOMAIN rows) - NProcs ELSE 0

\* ---- acknowledgment ----
\* ack id a stands for a delivery that is in flight: a DequeueWithAckId returned
\* it, no Acknowledge has succeeded with it, and no sweep or purge took the row
\* back since
InFlightDelivery(a) ==
    a \in hist.issued /\ a \notin hist.acked /\ a \notin hist.revoked

\* C5: DequeueWithAckId returns a non-empty ack id with found=true; absent store
\* failure Acknowledge(a) returns true exactly when a stands for a delivery in
\* flight, so the first Acknowledge(a) after the dequeue returns true and every
\* later one false; an Acknowledge that returns false (as for an id never issued)
\* changes no row.
C5_AcknowledgeOnce ==
    [][/\ (DequeueReturns /\ last'.op = "DequeueWithAckId") =>
              last'.ackID \notin {EmptyAck, NullAck}
       /\ last'.op = "Acknowledge" =>
              \A p \in Procs, a \in {last'.ackID} :
                  Acknowledge(p, a, FALSE) =>
                      /\ last'.ok <=> InFlightDelivery(a)
                      /\ a \notin hist.issued => ~last'.ok
                      /\ last'.ok => a \in hist'.acked
                      /\ ~last'.ok => rows' = rows]_vars

\* a second Acknowledge of an ack id has just returned false
C5_Witness ==
    /\ last.op = "Acknowledge" /\ ~last.ok
    /\ last.ackID \in hist.acked /\ last.ackID \notin hist.revoked

\* C6: the sweep makes every processing row pending again, so that Values lists
\* it and Len counts it, and no row holds the ack id it had; from then on
\* Acknowledge with that ack id returns false and changes no row.
C6_SweepRecovers ==
    [][/\ last'.op = "RequeueNoAckRows" =>
              \A p \in Procs :
                  RequeueNoAckRows(p, FALSE) =>
                      /\ \A i \in Processing(rows) :
                            /\ i \in Pending(rows')
                            /\ <<i, rows[i].data>> \in Values(rows')
                            /\ rows[i].ack_id \notin AckIdsOf(rows', DOMAIN rows')
                            /\ rows[i].ack_id \in hist'.revoked
                      /\ Len(rows') = Len(rows) + Cardinality(Processing(rows))
                      /\ Processing(rows') = {}
       /\ (last'.op = "Acknowledge" /\ last'.ackID \in hist.revoked) =>
              \A p \in Procs :
                  Acknowledge(p, last'.ackID, FALSE) => ~last'.ok /\ rows' = rows]_vars

\* Acknowledge with an ack id from before the sweep has just returned false while
\* the row it was issued for is in flight again under a later ack id
C6_Witness ==
    /\ last.op = "Acknowledge" /\ ~last.ok /\ last.ackID \in hist.revoked
    /\ \E i \in Processing(rows) : rows[i].ack_id > last.ackID

\* C7: a row returned by a Dequeue without ack id is gone from the table in the
\* step that returns it, is in the table in no later state (in no status, so no
\* sweep restores it), and no later or concurrent dequeue returns it.
C7_NoAckDequeueDeletes ==
    [][/\ hist'.gone \cap DOMAIN rows' = {}
       /\ DequeueReturns => last'.id \notin hist.gone
       /\ (DequeueReturns /\ last'.op = "Dequeue") =>
              /\ last'.id \in DOMAIN rows
              /\ last'.id \notin DOMAIN rows'
              /\ last'.id \in hist'.gone]_vars

\* a Dequeue has just returned a row that a concurrent caller had selected too
C7_Witness ==
    /\ last.op = "Dequeue" /\ last.ok
    /\ \E p \in Procs : txn[p].pc = "sel" /\ txn[p].id = last.id

\* ---- closing and failing ----
\* the inputs of Enqueue that the specifications draw
EnqueueInputs == (Payloads \cup {"x"}) \X (Priorities \cup {0})

\* C8: once the queue is closed, a call of Enqueue returns false and a call of
\* Dequeue or DequeueWithAckId returns not-found with an empty ack id; the call
\* opens no transaction and changes no row.
C8_ClosedQueueRefuses ==
    [][closed =>
         \A p \in {q \in Procs : txn[q].pc = "idle" /\ txn'[q].pc # "idle"}
                  \cup {q \in Procs : Refuses(DequeueOps \cup {"Enqueue"})
                                         /\ Moves(q, "idle", "idle")},
            fail \in BOOLEAN :
            /\ \A in \in EnqueueInputs :
                  EnqStart(p, in[1], in[2], fail) =>
                      last' = Refused("Enqueue") /\ rows' = rows /\ txn' = txn
            /\ \A withAckId \in BOOLEAN :
                  DeqStart(p, withAckId, fail) =>
                      /\ last' = Refused(DeqName(withAckId))
                      /\ last'.ackID = EmptyAck
                      /\ rows' = rows /\ txn' = txn]_vars

\* a DequeueWithAckId on the closed queue has just returned not-found although a
\* row is pending and the store is open
C8_Witness ==
    /\ closed /\ ~dbClosed
    /\ last = Refused("DequeueWithAckId")
    /\ Pending(rows) # {}

\* caller p takes a step of Enqueue or of a dequeue in which the store fails
StoreFails(p) ==
    \/ /\ txn[p].pc = "idle" /\ ~closed
       /\ \/ last'.op = "Enqueue" /\ \E in \in EnqueueInputs : EnqStart(p, in[1], in[2], TRUE)
          \/ last'.op \in DequeueOps /\ \E withAckId \in BOOLEAN : DeqStart(p, withAckId, TRUE)
    \/ txn[p].pc = "enq" /\ EnqCommit(p, TRUE)
    \/ /\ txn[p].pc = "sel"
       /\ DeqWrite(p, TRUE) \/ (WriteConflict(txn, p) /\ DeqWrite(p, FALSE))
    \/ txn[p].pc = "upd" /\ DeqCommit(p, TRUE)

\* C9: when a step of the transaction of Enqueue or of a dequeue fails, the call
\* returns false / not-found with an empty ack id and no payload, the table is as
\* it was, and the caller holds no transaction.
C9_FailureLeavesTable ==
    [][\A p \in {q \in Procs : txn'[q].pc = "idle" /\ last'.op # "none"} :
         StoreFails(p) =>
            /\ ~last'.ok /\ last'.op \in {"Enqueue", "Dequeue", "DequeueWithAckId"}
            /\ last'.ackID = EmptyAck /\ last'.data = NoData
            /\ rows' = rows
            /\ txn'[p] = IdleTxn]_vars

\* a DequeueWithAckId has just failed after it minted an ack id: no row is
\* processing, no ack id is stored, and the row is still pending
C9_Witness ==
    /\ last = Refused("DequeueWithAckId")
    /\ nextAck > 0 /\ hist.issued = {}
    /\ InFlight({"sel", "upd"}) = {}
    /\ Processing(rows) = {} /\ Pending(rows) # {}

\* C10: a dequeue returns only a row whose status is pending; with the queue open,
\* a row pending and no store step failing it returns found=true; with no row
\* pending (Len() = 0) it returns not-found with an empty ack id and changes
\* nothing.
C10_PendingRowsOnly ==
    [][/\ DequeueReturns =>
              /\ last'.id \in Pending(rows)
              /\ last'.id \notin Processing(rows) \cup Done(rows)
       /\ \A p \in {q \in Procs : Steps(q) \/ Refuses(DequeueOps)} :
              /\ (Moves(p, "idle", "sel") \/ (Moves(p, "idle", "idle") /\ Refuses(DequeueOps))) =>
                    \A withAckId \in BOOLEAN :
                       /\ (/\ ~closed /\ Len(rows) > 0
                           /\ last'.op \in {"none", DeqName(withAckId)}
                           /\ DeqStart(p, withAckId, FALSE)) =>
                             /\ txn'[p].pc = "sel"
                             /\ txn'[p].id \in Pending(rows)
                             /\ last' = NoRet
                       /\ \A fail \in BOOLEAN :
                             (Len(rows) = 0 /\ DeqStart(p, withAckId, fail)) =>
                                 /\ last' = Refused(DeqName(withAckId))
                                 /\ rows' = rows /\ txn' = txn
              /\ (Steps(p) /\ txn[p].pc = "sel" /\ ~WriteConflict(txn, p) /\ DeqWrite(p, FALSE)) =>
                    txn'[p].pc = "upd"
              /\ (Steps(p) /\ txn[p].pc = "upd" /\ DeqCommit(p, FALSE)) =>
                    DequeueReturns /\ last'.id = txn[p].id]_vars

\* a dequeue has just returned not-found while the table holds a processing row
\* and a done row and none that is pending
C10_Witness ==
    /\ last.op \in {"Dequeue", "DequeueWithAckId"} /\ ~last.ok
    /\ Pending(rows) = {} /\ Processing(rows) # {} /\ Done(rows) # {}

\* ---- construction ----
\* C11: constructing the queue over an existing table runs the recovery sweep:
\* when construction returns no row is processing, every row that was processing
\* is pending, every row that was pending is pending still, every row keeps its
\* payload, priority and created_at, and the table holds the same row ids (none
\* lost, none added).
C11_ConstructionSweeps ==
    [][Restart =>
         /\ Processing(rows') = {}
         /\ DOMAIN rows' = DOMAIN rows
         /\ Processing(rows) \cup Pending(rows) = Pending(rows')
         /\ \A i \in DOMAIN rows :
               /\ rows'[i].data = rows[i].data
               /\ rows'[i].priority = rows[i].priority
               /\ rows'[i].created_at = rows[i].created_at
               /\ rows[i].status = "done" => rows'[i] = rows[i]]_vars

\* the one row ever enqueued was handed out under an ack id and is pending again
\* in a later lifetime, nothing being in flight (the table was never purged: the
\* row is in it)
C11_Witness ==
    /\ nextId = 2 /\ Pending(rows) = {1}
    /\ hist.issued # {} /\ hist.revoked = hist.issued
    /\ InFlight({"enq", "sel", "upd"}) = {}
    /\ last = NoRet

\* ---- purge ----
\* C12: a Purge that succeeds leaves Len() = 0 and no row of any status, so a
\* sweep that follows it makes nothing pending; Purge of an empty table succeeds
\* and leaves it empty, and so does a Purge that follows a Purge.
C12_PurgeEmpties ==
    [][/\ (last'.op = "Purge" /\ last'.ok) =>
              /\ Len(rows') = 0
              /\ DOMAIN rows' = {}
              /\ Len(Requeued(rows')) = 0
       /\ (last.op = "Purge" /\ last.ok /\ last'.op = "RequeueNoAckRows") =>
              Len(rows') = 0 /\ DOMAIN rows' = {}
       /\ last'.op = "Purge" =>
              \A p \in {q \in Procs : Moves(q, "idle", "idle")} :
                  ((DOMAIN rows = {} \/ (last.op = "Purge" /\ last.ok)) /\ Purge(p, FALSE)) =>
                      last'.ok /\ DOMAIN rows' = {}]_vars

\* a Purge has just returned true with retention on, after one of two deliveries
\* was acknowledged and the other taken back
C12_Witness ==
    /\ last.op = "Purge" /\ last.ok
    /\ ~removeOnComplete
    /\ nextId = 3 /\ nextAck = 2
    /\ hist.acked # {} /\ hist.revoked # {}
    /\ rows = <<>>

\* ---- the registry is closed ----
\* C13: once the registry's Close has closed the store handle, a call of Enqueue
\* returns false and a call of Dequeue or DequeueWithAckId returns not-found,
\* opens no transaction and changes no row, although the queue's own Close was
\* never called.
C13_RegistryCloseRefuses ==
    [][(dbClosed /\ ~closed) =>
         \A p \in {q \in Procs : txn[q].pc = "idle" /\ txn'[q].pc # "idle"}
                  \cup {q \in Procs : Refuses(DequeueOps \cup {"Enqueue"})
                                         /\ Moves(q, "idle", "idle")},
            fail \in BOOLEAN :
            /\ \A in \in EnqueueInputs :
                  EnqStart(p, in[1], in[2], fail) =>
                      last' = Refused("Enqueue") /\ rows' = rows /\ txn' = txn
            /\ \A withAckId \in BOOLEAN :
                  DeqStart(p, withAckId, fail) =>
                      /\ last' = Refused(DeqName(withAckId))
                      /\ rows' = rows /\ txn' = txn]_vars

\* a Dequeue has just returned not-found although a row is pending and the queue
\* itself was not closed: the registry was
C13_Witness ==
    /\ dbClosed /\ ~closed
    /\ last = Refused("Dequeue")
    /\ Pending(rows) # {}

\* ---- retention ----
\* C14 as stated: in a queue constructed without options no row is done in any
\* reachable state.
C14_NoDoneRowByDefault == removeOnComplete => Done(rows) = {}

\* C14, amended: a queue constructed without options removes on completion; with
\* removal on, a successful Acknowledge deletes the processing row, and no step
\* gives a row the status done, so the done rows are those the table held at
\* construction; with retention on, a successful Acknowledge keeps the row with
\* status done and ack true.
C14_DefaultRemovesOnComplete ==
    [][/\ NewPriorityQueue("none") => removeOnComplete'
       /\ (removeOnComplete \/ last'.op # "Acknowledge") => Done(rows') \subseteq Done(rows)
       /\ (last'.op = "Acknowledge" /\ last'.ok) =>
              LET match == {i \in Processing(rows) : rows[i].ack_id = last'.ackID} IN
              /\ Cardinality(match) = 1
              /\ IF removeOnComplete
                    THEN rows' = Without(rows, match)
                    ELSE /\ DOMAIN rows' = DOMAIN rows
                         /\ \A i \in match :
                               rows'[i] = [rows[i] EXCEPT !.status = "done", !.ack = TRUE]
                         /\ \A i \in DOMAIN rows \ match : rows'[i] = rows[i]]_vars

\* an Acknowledge has just deleted its row in a queue that removes on
\* completion, while the table holds a done row from a lifetime with retention
C14_Witness ==
    /\ last.op = "Acknowledge" /\ last.ok
    /\ removeOnComplete
    /\ Done(rows) # {}
    /\ Processing(rows) = {}

\* ---- ack ids ----
\* the ack ids that rows carry
StoredAckIds(r) == AckIdsOf(r, DOMAIN r) \ {NullAck}

\* C15: every processing row carries an ack id that is neither NULL nor empty, no
\* two rows carry the same ack id, and the ack id that a DequeueWithAckId returns
\* was returned by no DequeueWithAckId before and is carried by no row before,
\* whether the earlier delivery was acknowledged, recovered or purged since.
C15_AckIdsNeverReused ==
    [][/\ \A i \in Processing(rows') : rows'[i].ack_id \notin {NullAck, EmptyAck}
       /\ \A i, j \in DOMAIN rows' :
             (i # j /\ rows'[i].ack_id # NullAck) => rows'[i].ack_id # rows'[j].ack_id
       /\ (DequeueReturns /\ last'.op = "DequeueWithAckId") =>
             /\ last'.ackID \notin hist.issued \cup hist.acked \cup hist.revoked
             /\ last'.ackID \notin StoredAckIds(rows)
             /\ rows'[last'.id].ack_id = last'.ackID]_vars

\* a DequeueWithAckId has just returned a second ack id, for the row enqueued
\* after a Purge deleted the row that was in flight under the first
C15_Witness ==
    /\ last.op = "DequeueWithAckId" /\ last.ok /\ last.id = 2
    /\ DOMAIN rows = {2}
    /\ hist.gone = {} /\ hist.acked = {}
    /\ hist.revoked # {} /\ last.ackID \notin hist.revoked

\* C16: a row that is dequeued again after a sweep gets an ack id that differs from
\* every ack id taken back before; Acknowledge with an ack id that was taken back
\* returns false and changes no row (the row stays processing under its new ack
\* id); Acknowledge with the ack id a processing row carries returns true and
\* takes that row, and no other, out of processing.  The rounds of recovery and
\* re-dequeue are bounded by MaxAck only.
C16_RedequeueMintsNewAckId ==
    [][/\ (DequeueReturns /\ last'.op = "DequeueWithAckId") =>
              /\ last'.ackID \notin hist.revoked
              /\ rows'[last'.id].ack_id = last'.ackID
       /\ last'.op = "Acknowledge" =>
              \A p \in {q \in Procs : Moves(q, "idle", "idle")} :
                  Acknowledge(p, last'.ackID, FALSE) =>
                      LET held == {i \in Processing(rows) : rows[i].ack_id = last'.ackID} IN
                      /\ last'.ackID \in hist.revoked => (held = {} /\ ~last'.ok /\ rows' = rows)
                      /\ held # {} =>
                            /\ last'.ok
                            /\ Processing(rows') = Processing(rows) \ held
                            /\ \A i \in Processing(rows') : rows'[i] = rows[i]]_vars

\* the one row ever enqueued was dequeued under ack id 1, recovered by the sweep,
\* dequeued again under ack id 2, and Acknowledge of ack id 2 has just returned true
C16_Witness ==
    /\ nextId = 2
    /\ last.op = "Acknowledge" /\ last.ok /\ last.ackID = 2
    /\ hist.revoked = {1} /\ hist.acked = {2} /\ hist.gone = {}

\* ---- recovered rows ----
\* No step changes the created_at or the priority of a row that stays in the
\* table, and a dequeue that passes over the recovered row 1 returns a row that
\* is served before it under ORDER BY priority ASC, created_at ASC or ties with it.
RecoveredRowKeepsFields ==
    [][/\ \A i \in DOMAIN rows \cap DOMAIN rows' :
             /\ rows'[i].created_at = rows[i].created_at
             /\ rows'[i].priority = rows[i].priority
       /\ (DequeueReturns /\ 1 \in Pending(rows)) =>
             ~Before(rows[1], rows[last'.id])]_vars

\* C17: the sweep and DequeueWithAckId leave created_at and priority of every row
\* as they were, and while the recovered row 1 is pending a dequeue returns it or
\* a row of strictly lower priority value, never a row of its own priority that
\* was enqueued after it (every other row was).
C17_RecoveredRowKeepsPlace ==
    [][/\ \A i \in DOMAIN rows \cap DOMAIN rows' :
             /\ rows'[i].created_at = rows[i].created_at
             /\ rows'[i].priority = rows[i].priority
       /\ (DequeueReturns /\ 1 \in Pending(rows) /\ last'.id # 1) =>
             rows[last'.id].priority < rows[1].priority]_vars

Completed == IF removeOnComplete THEN hist.acked ELSE {}

\* C19: without Purge, the number of successful Enqueues equals the number of rows
\* in the table plus the successful dequeues without ack id plus the Acknowledges
\* that deleted a row; a successful Enqueue adds exactly one row, pending and
\* with the payload given, and changes no other; a successful dequeue takes
\* exactly one row out of pending and returns the payload that row was enqueued
\* with; no step changes the payload of a row.
C19_Conservation ==
    [][/\ Cardinality(hist'.put) =
              Cardinality(DOMAIN rows') + Cardinality(hist'.gone) + Cardinality(Completed')
       /\ \A i \in DOMAIN rows \cap DOMAIN rows' : rows'[i].data = rows[i].data
       /\ (last'.op = "Enqueue" /\ last'.ok) =>
              /\ last'.id \notin DOMAIN rows
              /\ rows' = With(rows, last'.id, rows'[last'.id])
              /\ Pending(rows') = Pending(rows) \cup {last'.id}
              /\ rows'[last'.id].data = last'.data
              /\ \E p \in Procs : txn[p].pc = "enq" /\ txn[p].data = last'.data
       /\ DequeueReturns =>
              /\ last'.id \in hist.put
              /\ Pending(rows') = Pending(rows) \ {last'.id}
              /\ last'.id \in Pending(rows)
              /\ last'.data = rows[last'.id].data
              /\ \A i \in DOMAIN rows' \ {last'.id} : rows'[i] = rows[i]]_vars

\* a Dequeue has just returned the payload y of row 2, the only row ever put: the
\* Enqueue that drew row id 1 failed at its commit
C19_Witness ==
    /\ last.op = "Dequeue" /\ last.ok /\ last.data = "y" /\ last.id = 2
    /\ hist.put = {2} /\ hist.gone = {2}
    /\ DOMAIN rows = {}
====
